---- MODULE Spec2Model ----
(***************************************************************************)
(* Model of the CBOE option snapshot loader (src/src/main.rs).             *)
(*                                                                         *)
(* One invocation of main is a run: read the source's timestamp, read the  *)
(* stored maximum, compare, then for every feed of URLS fetch, parse and   *)
(* load it in one transaction, then delete the duplicates.  The table      *)
(* t_options_cboe_snapshot is the only state that survives a run.          *)
(*                                                                         *)
(* Representation.  A CSV cell is the sequence of its characters.  An f64  *)
(* is the integer number of hundredths it denotes (the sample cells carry  *)
(* at most two decimals).  A timestamp is a natural number, ordered as the *)
(* timestamps are.  Option<T> is <<>> (None) or <<x>> (Some(x)).  The      *)
(* table is a bag of rows, so that it can hold identical rows twice.       *)
(***************************************************************************)
EXTENDS Integers, Sequences, FiniteSets, Bags, TLC

\* ------------------------------------------------------------------ bounds
MaxRows == 2
MaxTs == 2
MaxClock == 2
MaxStored == 3
MaxFeedRows == 3

\* ------------------------------------------------------- program constants
URLS == <<"cone", "opt", "ctwo", "exo">>
MinFields == 12

None == <<>>
Some(x) == <<x>>
unwrap_or(o, d) == IF o = None THEN d ELSE o[1]

\* ------------------------------------------------------------ cell parsing
DigitChars == {"0", "1", "2", "3", "4", "5", "6", "7", "8", "9"}

DigitVal(c) ==
  CASE c = "0" -> 0 [] c = "1" -> 1 [] c = "2" -> 2 [] c = "3" -> 3
    [] c = "4" -> 4 [] c = "5" -> 5 [] c = "6" -> 6 [] c = "7" -> 7
    [] c = "8" -> 8 [] c = "9" -> 9

IsDigits(s) == \A j \in 1..Len(s) : s[j] \in DigitChars

RECURSIVE DecVal(_)
DecVal(s) ==
  IF s = <<>> THEN 0
  ELSE DecVal(SubSeq(s, 1, Len(s) - 1)) * 10 + DigitVal(s[Len(s)])

Unsigned(s) == IF Len(s) > 0 /\ s[1] \in {"+", "-"} THEN Tail(s) ELSE s
Sign(s) == IF Len(s) > 0 /\ s[1] = "-" THEN -1 ELSE 1

\* str::parse::<i64>: an optional sign and at least one digit, nothing else.
ParseI64(s) ==
  LET body == Unsigned(s)
  IN IF Len(body) > 0 /\ IsDigits(body) THEN Some(Sign(s) * DecVal(body))
     ELSE None

DotAt(s) == {j \in 1..Len(s) : s[j] = "."}

\* The first two decimals of a fraction, in hundredths.
Hundredths(f) ==
  IF Len(f) = 0 THEN 0
  ELSE IF Len(f) = 1 THEN 10 * DigitVal(f[1])
  ELSE 10 * DigitVal(f[1]) + DigitVal(f[2])

\* str::parse::<f64> on cells made of sign, digits and one point: digits
\* with an optional point, at least one digit in all.
ParseF64(s) ==
  LET body == Unsigned(s)
      dots == DotAt(body)
  IN IF dots = {} THEN
       IF Len(body) > 0 /\ IsDigits(body)
       THEN Some(Sign(s) * 100 * DecVal(body)) ELSE None
     ELSE IF Cardinality(dots) > 1 THEN None
     ELSE LET p == CHOOSE j \in dots : TRUE
              ip == SubSeq(body, 1, p - 1)
              fp == SubSeq(body, p + 1, Len(body))
          IN IF IsDigits(ip) /\ IsDigits(fp) /\ Len(ip) + Len(fp) > 0
             THEN Some(Sign(s) * (100 * DecVal(ip) + Hundredths(fp)))
             ELSE None

\* ---------------------------------------------------------------- the feed
\* The OptionRecord built from a row of at least 12 cells.
OptionRecord(record) ==
  [symbol       |-> record[1],
   call_put     |-> record[2],
   expiration   |-> record[3],
   strike_price |-> unwrap_or(ParseF64(record[4]), 0),
   volume       |-> unwrap_or(ParseI64(record[5]), 0),
   matched      |-> unwrap_or(ParseI64(record[6]), 0),
   routed       |-> unwrap_or(ParseI64(record[7]), 0),
   bid_size     |-> unwrap_or(ParseI64(record[8]), 0),
   bid_price    |-> unwrap_or(ParseF64(record[9]), 0),
   ask_size     |-> unwrap_or(ParseI64(record[10]), 0),
   ask_price    |-> unwrap_or(ParseF64(record[11]), 0),
   last_price   |-> unwrap_or(ParseF64(record[12]), 0)]

\* ReaderBuilder::new().has_headers(true): the reader is not flexible, so a
\* row whose number of fields differs from the header's is an error.
RowError(header, row) == Len(row) # Len(header)

RECURSIVE ParseRows(_, _, _)
ParseRows(header, rows, acc) ==
  IF rows = <<>> THEN [ok |-> TRUE, records |-> acc]
  ELSE IF RowError(header, Head(rows)) THEN [ok |-> FALSE, records |-> <<>>]
  ELSE IF Len(Head(rows)) < MinFields THEN ParseRows(header, Tail(rows), acc)
  ELSE ParseRows(header, Tail(rows), Append(acc, OptionRecord(Head(rows))))

\* The body of get_csv_content after the response arrived.
get_csv_content(feed) == ParseRows(feed.header, feed.rows, <<>>)

\* Sample feed contents.
Header12 == << <<"S">>, <<"T">>, <<"E">>, <<"K">>, <<"V">>, <<"M">>, <<"R">>,
               <<"B">>, <<"b">>, <<"A">>, <<"a">>, <<"L">> >>
Header11 == SubSeq(Header12, 1, 11)

RowA1 == << <<"A">>, <<"C">>, <<"J">>, <<"1", ".", "5">>, <<"1">>, <<"1">>,
            <<"0">>, <<"3">>, <<"1", ".", "2">>, <<"4">>, <<".", "5">>,
            <<"1">> >>
RowA2 == << <<"A">>, <<"C">>, <<"J">>, <<"1", ".", "5", "0">>, <<"2">>, <<"2">>,
            <<"1">>, <<"5">>, <<"1", ".", "3">>, <<"6">>, <<"2">>,
            <<"-", "1">> >>
RowB == << <<"A">>, <<"P">>, <<"J">>, <<"x">>, <<"1", "x">>, <<"+", "7">>,
           <<>>, <<"1", ".", "0">>, <<".">>, <<"2">>, <<"1", ".", ".", "2">>,
           <<"3", ".">> >>
RowShort == SubSeq(RowA1, 1, 11)

SampleRows == {RowA1, RowA2, RowB, RowShort}
Headers == {Header12, Header11}

\* What a feed of a run may hold: quotes of one contract and short rows, no
\* line of it twice.
RunRows == {RowA1, RowA2, RowShort}
Feeds == [header : Headers,
          rows : {f \in UNION {[1..n -> RunRows] : n \in 0..MaxRows} :
                    \A a, b \in DOMAIN f : a # b => f[a] # f[b]}]

\* What the parser is tried on.
ParseFeeds == [header : Headers,
               rows : UNION {[1..n -> SampleRows] : n \in 0..MaxFeedRows}]

\* --------------------------------------------------------------- the table
Timestamps == 1..MaxTs
Clock == 1..MaxClock

\* Mutant: the values bound for last_updated_time and etl_in_dt exchanged.
Excluded_SwappedTimes(rec, last_updated_time, etl) ==
  [symbol            |-> rec.symbol,
   call_put          |-> rec.call_put,
   expiration        |-> rec.expiration,
   strike_price      |-> rec.strike_price,
   volume            |-> rec.volume,
   matched           |-> rec.matched,
   routed            |-> rec.routed,
   bid_size          |-> rec.bid_size,
   bid_price         |-> rec.bid_price,
   ask_size          |-> rec.ask_size,
   ask_price         |-> rec.ask_price,
   last_price        |-> rec.last_price,
   last_updated_time |-> etl,
   etl_in_dt         |-> last_updated_time]

\* The row the INSERT proposes (EXCLUDED) for a record.
Excluded(rec, last_updated_time, etl) ==
  [symbol            |-> rec.symbol,
   call_put          |-> rec.call_put,
   expiration        |-> rec.expiration,
   strike_price      |-> rec.strike_price,
   volume            |-> rec.volume,
   matched           |-> rec.matched,
   routed            |-> rec.routed,
   bid_size          |-> rec.bid_size,
   bid_price         |-> rec.bid_price,
   ask_size          |-> rec.ask_size,
   ask_price         |-> rec.ask_price,
   last_price        |-> rec.last_price,
   last_updated_time |-> last_updated_time,
   etl_in_dt         |-> etl]

\* ON CONFLICT (symbol, call_put, expiration, strike_price, last_updated_time)
ConflictKey(r) ==
  <<r.symbol, r.call_put, r.expiration, r.strike_price, r.last_updated_time>>

\* Mutant: etl_in_dt missing from the SET list.
DoUpdate_KeepsEtl(old, new) ==
  [old EXCEPT !.volume = new.volume,
              !.matched = new.matched,
              !.routed = new.routed,
              !.bid_size = new.bid_size,
              !.bid_price = new.bid_price,
              !.ask_size = new.ask_size,
              !.ask_price = new.ask_price,
              !.last_price = new.last_price]

\* DO UPDATE SET ... = EXCLUDED. ...
DoUpdate(old, new) ==
  [old EXCEPT !.volume = new.volume,
              !.matched = new.matched,
              !.routed = new.routed,
              !.bid_size = new.bid_size,
              !.bid_price = new.bid_price,
              !.ask_size = new.ask_size,
              !.ask_price = new.ask_price,
              !.last_price = new.last_price,
              !.etl_in_dt = new.etl_in_dt]

\* Mutant: a plain INSERT, on a table without the unique index.
Upsert_PlainInsert(tbl, new) == tbl (+) SetToBag({new})

\* One INSERT ... ON CONFLICT ... DO UPDATE statement.
Upsert(tbl, new) ==
  LET conflicts == {r \in BagToSet(tbl) : ConflictKey(r) = ConflictKey(new)}
  IN IF conflicts = {} THEN tbl (+) SetToBag({new})
     ELSE LET old == CHOOSE r \in conflicts : TRUE
          IN (tbl (-) SetToBag({old})) (+) SetToBag({DoUpdate(old, new)})

\* SELECT max(last_updated_time) FROM t_options_cboe_snapshot
StoredMax(tbl) ==
  LET ts == {r.last_updated_time : r \in BagToSet(tbl)}
  IN IF ts = {} THEN None
     ELSE Some(CHOOSE t \in ts : \A u \in ts : u <= t)

\* Mutant: volume among the PARTITION BY columns.
PartitionKey_WithVolume(r) ==
  <<r.symbol, r.expiration, r.call_put, r.strike_price, r.last_updated_time,
    r.volume>>

\* PARTITION BY symbol, expiration, call_put, strike_price, last_updated_time
PartitionKey(r) ==
  <<r.symbol, r.expiration, r.call_put, r.strike_price, r.last_updated_time>>

\* Mutant: ORDER BY etl_in_dt ascending.
FirstRanked_Ascending(tbl, part) ==
  {r \in BagToSet(tbl) :
     /\ PartitionKey(r) = part
     /\ \A q \in BagToSet(tbl) :
          PartitionKey(q) = part => r.etl_in_dt <= q.etl_in_dt}

\* The rows ROW_NUMBER() may number 1 in the partition of r: ORDER BY
\* etl_in_dt DESC, the order among equal etl_in_dt being the engine's choice.
FirstRanked(tbl, part) ==
  {r \in BagToSet(tbl) :
     /\ PartitionKey(r) = part
     /\ \A q \in BagToSet(tbl) :
          PartitionKey(q) = part => q.etl_in_dt <= r.etl_in_dt}

\* The tables the DELETE of clean_duplicate_data can leave: in every
\* partition the row numbered 1 stays and the rows numbered above 1 go.
CleanOutcomes(tbl) ==
  LET parts == {PartitionKey(r) : r \in BagToSet(tbl)}
      picks == {f \in [parts -> BagToSet(tbl)] :
                  \A p \in parts : f[p] \in FirstRanked(tbl, p)}
  IN {SetToBag({f[p] : p \in parts}) : f \in picks}

\* What the table may hold when the duplicates are deleted: up to MaxStored
\* rows, the same key or the same row several times among them.
StoredRows ==
  {Excluded(OptionRecord(row), t, e) :
     row \in {RowA1, RowA2, RowB}, t \in Timestamps, e \in Clock}

BagOfSeq(s) ==
  [r \in {s[j] : j \in 1..Len(s)} |->
     Cardinality({j \in 1..Len(s) : s[j] = r})]

StoredTables ==
  {BagOfSeq(s) : s \in UNION {[1..n -> StoredRows] : n \in 0..MaxStored}}

\* Mutant: no early return, every run loads.
AlreadyUpdated_Never(last, max) == FALSE

\* Mutant: the run is skipped only when the stored maximum is newer.
AlreadyUpdated_StoredNewer(last, max) == max # None /\ last < max[1]

\* The gate of main: Some(last_update_time) == max_updated_time
AlreadyUpdated(last, max) == Some(last) = max

\* Mutant: the statements of a dropped transaction stay.
Rollback_KeepsWrites(committed, written) == written

\* What the store holds when a transaction is dropped without a commit.
Rollback(committed, written) == committed

\* ----------------------------------------------------------------- the run
Pages == {[kind |-> "unreachable"], [kind |-> "nomatch"],
          [kind |-> "malformed"]}
         \cup {[kind |-> "ok", time |-> t] : t \in Timestamps}

VARIABLES
  table,             \* t_options_cboe_snapshot, committed
  pc,                \* where main is
  err,               \* the call whose error ended the run
  url,               \* index in URLS of the feed in hand
  last_update_time,  \* main's last_update_time
  max_updated_time,  \* main's max_updated_time
  body,              \* the response get_csv_content reads
  records,           \* the records of the last feed parsed in this run
  again,             \* records are those of the feed loaded just before
  etl_in_dt,         \* insert_records' etl_in_dt
  tx,                \* the table as the open transaction sees it
  done,              \* number of records of the feed already written
  stmt,              \* what the last statement of the transaction did
  log,               \* the info! lines of this run
  loaded,            \* whether a feed committed in this run had records
  prev               \* the last run before this one that came to the gate,
                     \* kept while this run reads the timestamp it read

vars == <<table, pc, err, url, last_update_time, max_updated_time, body,
          records, again, etl_in_dt, tx, done, stmt, log, loaded, prev>>

\* prev.fresh: the run's timestamp was not smaller than the stored maximum.
NoRun == [time |-> 0, end |-> "none", loaded |-> FALSE, fresh |-> FALSE]

Init ==
  /\ table = EmptyBag
  /\ pc = "idle"
  /\ err = "none"
  /\ url = 0
  /\ last_update_time = 0
  /\ max_updated_time = None
  /\ body = None
  /\ records = <<>>
  /\ again = FALSE
  /\ etl_in_dt = 0
  /\ tx = EmptyBag
  /\ done = 0
  /\ stmt = "none"
  /\ log = <<>>
  /\ loaded = FALSE
  /\ prev = NoRun

\* How a run ended: with an error, at the gate, or after the whole load.
End == IF pc = "error" THEN "error"
       ELSE IF log = << <<"already updated">> >> THEN "skipped" ELSE "loaded"

\* main up to the connection to the database; the run before it is over.
main ==
  /\ pc \in {"idle", "done", "error"}
  /\ \E connected \in BOOLEAN :
       IF connected THEN pc' = "page" /\ err' = "none"
       ELSE pc' = "error" /\ err' = "connect"
  /\ url' = 0
  /\ last_update_time' = 0
  /\ max_updated_time' = None
  /\ body' = None
  /\ records' = <<>>
  /\ again' = FALSE
  /\ etl_in_dt' = 0
  /\ tx' = EmptyBag
  /\ done' = 0
  /\ stmt' = "none"
  /\ log' = <<>>
  /\ loaded' = FALSE
  /\ prev' = IF pc = "idle" \/ err \in {"connect", "page", "max"} THEN prev
             ELSE [time |-> last_update_time, end |-> End,
                   loaded |-> loaded,
                   fresh |-> \/ max_updated_time = None
                             \/ max_updated_time[1] <= last_update_time]
  /\ UNCHANGED table

\* get_page_content_last_update_time(&client).await?; a run that reads
\* another timestamp than the run before is not one that follows it up.
get_page_content_last_update_time ==
  /\ pc = "page"
  /\ \E page \in Pages :
       IF page.kind = "ok"
       THEN /\ last_update_time' = page.time
            /\ prev' = IF prev.time = page.time THEN prev ELSE NoRun
            /\ pc' = "max"
            /\ err' = err
       ELSE /\ pc' = "error"
            /\ err' = "page"
            /\ UNCHANGED <<last_update_time, prev>>
  /\ UNCHANGED <<table, url, max_updated_time, body, records, again,
                 etl_in_dt, tx, done, stmt, log, loaded>>

\* get_max_updated_date(&pool).await?
get_max_updated_date ==
  /\ pc = "max"
  /\ \E answered \in BOOLEAN :
       IF answered
       THEN /\ max_updated_time' = StoredMax(table)
            /\ pc' = "gate"
            /\ err' = err
       ELSE /\ pc' = "error"
            /\ err' = "max"
            /\ UNCHANGED max_updated_time
  /\ UNCHANGED <<table, url, last_update_time, body, records, again,
                 etl_in_dt, tx, done, stmt, log, loaded, prev>>

\* if Some(last_update_time) == max_updated_time { return Ok(()) }
gate ==
  /\ pc = "gate"
  /\ IF AlreadyUpdated(last_update_time, max_updated_time)
     THEN /\ pc' = "done"
          /\ log' = Append(log, <<"already updated">>)
          /\ url' = url
     ELSE /\ pc' = "fetch"
          /\ log' = log
          /\ url' = 1
  /\ UNCHANGED <<table, err, last_update_time, max_updated_time, body,
                 records, again, etl_in_dt, tx, done, stmt, loaded, prev>>

\* Mutant: main goes on to the next feed when a feed cannot be had.
fetch_SkipsBadFeed ==
  /\ pc = "fetch"
  /\ log' = Append(log, <<"fetching", URLS[url]>>)
  /\ \E reachable \in BOOLEAN, feed \in Feeds :
       LET parsed == get_csv_content(feed)
       IN IF reachable /\ parsed.ok
          THEN /\ records' = parsed.records
               /\ again' = (url > 1 /\ parsed.records = records)
               /\ pc' = "begin"
               /\ url' = url
          ELSE /\ UNCHANGED <<records, again>>
               /\ pc' = IF url = Len(URLS) THEN "dedup" ELSE "fetch"
               /\ url' = IF url = Len(URLS) THEN url ELSE url + 1
  /\ UNCHANGED <<table, err, last_update_time, max_updated_time, body,
                 etl_in_dt, tx, done, stmt, loaded, prev>>

\* let records = get_csv_content(&client, url).await?
fetch ==
  /\ pc = "fetch"
  /\ log' = Append(log, <<"fetching", URLS[url]>>)
  /\ \E reachable \in BOOLEAN, feed \in Feeds :
       LET parsed == get_csv_content(feed)
       IN IF reachable /\ parsed.ok
          THEN /\ records' = parsed.records
               /\ again' = (url > 1 /\ parsed.records = records)
               /\ pc' = "begin"
               /\ err' = err
          ELSE /\ pc' = "error"
               /\ err' = IF reachable THEN "parse" ELSE "fetch"
               /\ records' = <<>>
               /\ again' = FALSE
  /\ UNCHANGED <<table, url, last_update_time, max_updated_time, body,
                 etl_in_dt, tx, done, stmt, loaded, prev>>

\* insert_records: pool.begin().await? and the clock reading
begin ==
  /\ pc = "begin"
  /\ \E opened \in BOOLEAN, now \in Clock :
       IF opened
       THEN /\ pc' = "exec"
            /\ err' = err
            /\ etl_in_dt' = now
            /\ tx' = table
       ELSE /\ pc' = "error"
            /\ err' = "begin"
            /\ UNCHANGED <<etl_in_dt, tx>>
  /\ done' = 0
  /\ stmt' = "none"
  /\ records' = IF pc' = "error" THEN <<>> ELSE records
  /\ again' = (pc' # "error" /\ again)
  /\ UNCHANGED <<table, url, last_update_time, max_updated_time, body,
                 log, loaded, prev>>

\* insert_records: one turn of the loop over the records
execute ==
  /\ pc = "exec"
  /\ done < Len(records)
  /\ \E executed \in BOOLEAN :
       IF executed
       THEN LET new == Excluded(records[done + 1], last_update_time,
                                etl_in_dt)
            IN /\ tx' = Upsert(tx, new)
               /\ stmt' = IF \E r \in BagToSet(tx) :
                                ConflictKey(r) = ConflictKey(new)
                          THEN "update" ELSE "insert"
               /\ done' = done + 1
               /\ UNCHANGED <<pc, err, table, records, again, etl_in_dt>>
       ELSE /\ pc' = "error"
            /\ err' = "execute"
            /\ table' = Rollback(table, tx)
            /\ tx' = EmptyBag
            /\ records' = <<>>
            /\ again' = FALSE
            /\ etl_in_dt' = 0
            /\ UNCHANGED <<done, stmt>>
  /\ UNCHANGED <<url, last_update_time, max_updated_time, body,
                 log, loaded, prev>>

\* insert_records: tx.commit().await? and the return to the loop of main
commit ==
  /\ pc = "exec"
  /\ done = Len(records)
  /\ \E committed \in BOOLEAN :
       IF committed
       THEN /\ table' = tx
            /\ err' = err
            /\ log' = Append(log, <<"inserted", URLS[url]>>)
            /\ loaded' = (loaded \/ Len(records) > 0)
            /\ etl_in_dt' = 0
            /\ tx' = EmptyBag
            /\ done' = 0
            /\ stmt' = "none"
            /\ UNCHANGED <<records, again>>
            /\ IF url = Len(URLS)
               THEN /\ pc' = "dedup"
                    /\ url' = url
               ELSE /\ pc' = "fetch"
                    /\ url' = url + 1
       ELSE /\ pc' = "error"
            /\ err' = "commit"
            /\ table' = Rollback(table, tx)
            /\ tx' = EmptyBag
            /\ records' = <<>>
            /\ again' = FALSE
            /\ etl_in_dt' = 0
            /\ UNCHANGED <<log, loaded, url, done, stmt>>
  /\ UNCHANGED <<last_update_time, max_updated_time, body, prev>>

\* clean_duplicate_data(&pool).await?
clean_duplicate_data ==
  /\ pc = "dedup"
  /\ \E executed \in BOOLEAN :
       IF executed
       THEN /\ table' \in CleanOutcomes(table)
            /\ log' = Append(log, <<"cleaned">>)
            /\ pc' = "done"
            /\ err' = err
       ELSE /\ pc' = "error"
            /\ err' = "clean"
            /\ UNCHANGED <<table, log>>
  /\ UNCHANGED <<url, last_update_time, max_updated_time, body, records,
                 again, etl_in_dt, tx, done, stmt, loaded, prev>>

Next ==
  \/ main
  \/ get_page_content_last_update_time
  \/ get_max_updated_date
  \/ gate
  \/ fetch
  \/ begin
  \/ execute
  \/ commit
  \/ clean_duplicate_data

Spec == Init /\ [][Next]_vars

\* The ON CONFLICT target is a unique index of the table.
UniqueIndex == \A r \in BagToSet(table) :
  /\ CopiesIn(r, table) = 1
  /\ \A q \in BagToSet(table) : ConflictKey(q) = ConflictKey(r) => q = r

\* ------------------------------------------- clean_duplicate_data alone
\* The table before the duplicates are deleted is kept in tx.
InitClean ==
  /\ table \in StoredTables
  /\ tx = table
  /\ pc = "dedup"
  /\ err = "none"
  /\ url = Len(URLS)
  /\ last_update_time = MaxTs
  /\ max_updated_time = None
  /\ body = None
  /\ records = <<>>
  /\ again = FALSE
  /\ etl_in_dt = 0
  /\ done = 0
  /\ stmt = "none"
  /\ log = <<>>
  /\ loaded = FALSE
  /\ prev = NoRun

NextClean == clean_duplicate_data

SpecClean == InitClean /\ [][NextClean]_vars

\* ------------------------------------------------ get_csv_content alone
\* get_csv_content on the response in body.
parse ==
  /\ pc = "parse"
  /\ LET parsed == get_csv_content(body[1])
     IN IF parsed.ok
        THEN /\ records' = parsed.records
             /\ pc' = "begin"
             /\ err' = err
        ELSE /\ records' = <<>>
             /\ pc' = "error"
             /\ err' = "parse"
  /\ UNCHANGED <<table, url, last_update_time, max_updated_time, body, again,
                 etl_in_dt, tx, done, stmt, log, loaded, prev>>

InitParse ==
  /\ body \in {Some(feed) : feed \in ParseFeeds}
  /\ pc = "parse"
  /\ table = EmptyBag
  /\ err = "none"
  /\ url = 1
  /\ last_update_time = 1
  /\ max_updated_time = None
  /\ records = <<>>
  /\ again = FALSE
  /\ etl_in_dt = 0
  /\ tx = EmptyBag
  /\ done = 0
  /\ stmt = "none"
  /\ log = << <<"fetching", URLS[1]>> >>
  /\ loaded = FALSE
  /\ prev = NoRun

NextParse == parse

SpecParse == InitParse /\ [][NextParse]_vars

\* ---------------------------------------------------------------- claims
Lines(l, what) == {j \in 1..Len(l) : l[j][1] = what}

SameKey(q, r) ==
  /\ q.symbol = r.symbol
  /\ q.call_put = r.call_put
  /\ q.expiration = r.expiration
  /\ q.strike_price = r.strike_price
  /\ q.last_updated_time = r.last_updated_time

\* The calls of main that precede the comparison have returned.
PastGate ==
  \/ pc \in {"fetch", "begin", "exec", "dedup", "done"}
  \/ pc = "error" /\ err \notin {"connect", "page", "max"}

\* The run stopped at the comparison.
Skipped == pc = "done" /\ log = << <<"already updated">> >>

\* Up to the comparison a run leaves the table alone, and what it reads as
\* the maximum is the maximum of the table.
ReadsStoredMax ==
  /\ (pc \in {"idle", "done", "error", "page", "max", "gate"})
       => table' = table
  /\ (pc = "max" /\ pc' = "gate") => max_updated_time' = StoredMax(table)

\* C1: a run that finds the stored maximum last_updated_time equal to the
\* source's timestamp ends successfully at the comparison with no feed
\* fetched, no load, no deduplication, and the table as the run found it.
C1_FreshnessShortCircuit ==
  [][/\ ReadsStoredMax
     /\ (pc = "gate" /\ max_updated_time = <<last_update_time>>)
          => (Skipped' /\ table' = table)
     /\ Skipped => (pc' \in {"page", "error"} /\ log' = <<>>)]_vars

C1_Witness ==
  /\ Skipped
  /\ table # EmptyBag
  /\ StoredMax(table) = <<last_update_time>>
  /\ max_updated_time = <<last_update_time>>

\* C2: whatever the table held, rows with the same key and the same row
\* several times included, once clean_duplicate_data has completed no two rows
\* of the table have the same (symbol, call_put, expiration, strike_price,
\* last_updated_time).
C2_KeyUniqueAfterDedup ==
  pc = "done" =>
    \A r \in BagToSet(table) :
      /\ CopiesIn(r, table) = 1
      /\ \A q \in BagToSet(table) : SameKey(q, r) => q = r

C2_Witness ==
  /\ pc = "done"
  /\ \E r \in BagToSet(tx) : CopiesIn(r, tx) > 1
  /\ \E q, r \in BagToSet(tx) : SameKey(q, r) /\ q # r

\* The rows of tbl with the key of r, and how many they are with their copies.
Group(tbl, r) == {q \in BagToSet(tbl) : SameKey(q, r)}
GroupSize(tbl, r) == BagCardinality([q \in Group(tbl, r) |-> tbl[q]])

\* C6: of a group of rows with the same key and pairwise different etl_in_dt
\* the deduplication leaves exactly one row, the one with the greatest
\* etl_in_dt; a row whose key occurs once is not deleted.
C6_DedupSurvivor ==
  pc = "done" =>
    \A r \in BagToSet(tx) :
      LET group == Group(tx, r)
          distinct == /\ \A q \in group : CopiesIn(q, tx) = 1
                      /\ \A p, q \in group :
                           p # q => p.etl_in_dt # q.etl_in_dt
          latest == CHOOSE q \in group :
                      \A p \in group : p.etl_in_dt <= q.etl_in_dt
      IN distinct => /\ Group(table, r) = {latest}
                     /\ CopiesIn(latest, table) = 1

C6_Witness ==
  /\ pc = "done"
  /\ \E q, r \in BagToSet(tx) :
       /\ SameKey(q, r)
       /\ q.etl_in_dt < r.etl_in_dt
       /\ GroupSize(tx, r) = 2
       /\ Group(table, r) = {r}
  /\ \E r \in BagToSet(tx) :
       GroupSize(tx, r) = 1 /\ CopiesIn(r, table) = 1

\* The rows without their etl_in_dt.
WithoutEtl(tbl) ==
  {[f \in DOMAIN r \ {"etl_in_dt"} |-> r[f]] : r \in BagToSet(tbl)}

\* C3: a load of the records and the last_updated_time of the load before
\* it, on the table that load left, changes neither the number of rows nor
\* any field of any row but etl_in_dt.
C3_IdempotentUpsert ==
  [][(pc = "exec" /\ pc' \in {"fetch", "dedup"} /\ again)
       => (/\ BagCardinality(table') = BagCardinality(table)
           /\ WithoutEtl(table') = WithoutEtl(table))]_vars

C3_Witness ==
  /\ again
  /\ pc \in {"fetch", "dedup"}
  /\ Len(records) > 0
  /\ Cardinality(Lines(log, "inserted")) >= 2
  /\ \E q, r \in BagToSet(table) :
       /\ q.last_updated_time # last_update_time
       /\ r.last_updated_time = last_update_time
       /\ r.etl_in_dt # q.etl_in_dt

\* C4: a statement whose record has the key of a row adds no row, gives that
\* row the record's volume, matched, routed, bid_size, bid_price, ask_size,
\* ask_price, last_price and the load's etl_in_dt, keeps its five key fields,
\* and leaves every other row as it was.
C4_ConflictMerge ==
  [][(pc = "exec" /\ done' = done + 1) =>
       LET rec == records[done + 1]
           hit == {r \in BagToSet(tx) :
                     /\ r.symbol = rec.symbol
                     /\ r.call_put = rec.call_put
                     /\ r.expiration = rec.expiration
                     /\ r.strike_price = rec.strike_price
                     /\ r.last_updated_time = last_update_time}
           merged(r) == [symbol            |-> r.symbol,
                         call_put          |-> r.call_put,
                         expiration        |-> r.expiration,
                         strike_price      |-> r.strike_price,
                         last_updated_time |-> r.last_updated_time,
                         volume            |-> rec.volume,
                         matched           |-> rec.matched,
                         routed            |-> rec.routed,
                         bid_size          |-> rec.bid_size,
                         bid_price         |-> rec.bid_price,
                         ask_size          |-> rec.ask_size,
                         ask_price         |-> rec.ask_price,
                         last_price        |-> rec.last_price,
                         etl_in_dt         |-> etl_in_dt]
       IN hit # {} =>
            (/\ BagCardinality(tx') = BagCardinality(tx)
             /\ BagToSet(tx') =
                  (BagToSet(tx) \ hit) \cup {merged(r) : r \in hit}
             /\ \A r \in BagToSet(tx) \ hit :
                  CopiesIn(r, tx') = CopiesIn(r, tx))]_vars

C4_Witness ==
  /\ pc = "exec"
  /\ stmt = "update"
  /\ BagCardinality(tx) > 1
  /\ \E r \in BagToSet(table) :
       /\ SameKey(r, Excluded(records[done], last_update_time, etl_in_dt))
       /\ r.volume # records[done].volume
       /\ r.etl_in_dt # etl_in_dt
       /\ ~ BagIn(r, tx)

\* C5: from the opening of a feed's transaction on, the table changes only
\* at a commit that follows the writing of every record of the feed, and
\* then to what the transaction wrote; a load that fails leaves the table
\* as it was when the transaction began.
C5_AllOrNothing ==
  [][(pc \in {"begin", "exec"}) =>
       (\/ table' = table
        \/ /\ pc = "exec"
           /\ done = Len(records)
           /\ pc' \in {"fetch", "dedup"}
           /\ table' = tx)]_vars

C5_Witness ==
  /\ pc = "error"
  /\ err = "execute"
  /\ done > 0
  /\ stmt = "insert"
  /\ Lines(log, "inserted") # {}

\* C7: a data row with fewer than 12 fields yields no record and does not
\* end the parse: the parse succeeds and its records are those of the rows
\* with at least 12 fields, the rows after a short one included.
C7_ShortRowSkip ==
  (pc \in {"begin", "error"} /\ body # <<>>) =>
    LET rows == body[1].rows
        long == {j \in 1..Len(rows) : Len(rows[j]) >= 12}
    IN (\E j \in 1..Len(rows) : Len(rows[j]) < 12) =>
         /\ pc = "begin"
         /\ Len(records) = Cardinality(long)
         /\ \A j \in long : \E k \in 1..Len(records) :
              records[k] = OptionRecord(rows[j])

\* The lines of a run that loads every feed, in the order of the feeds.
FullLog ==
  << <<"fetching", "cone">>, <<"inserted", "cone">>,
     <<"fetching", "opt">>, <<"inserted", "opt">>,
     <<"fetching", "ctwo">>, <<"inserted", "ctwo">>,
     <<"fetching", "exo">>, <<"inserted", "exo">>,
     <<"cleaned">> >>

FeedFailed ==
  pc = "error" /\ err \in {"fetch", "parse", "begin", "execute", "commit"}

C8_State ==
  /\ \/ log = << <<"already updated">> >>
     \/ Len(log) <= Len(FullLog) /\ log = SubSeq(FullLog, 1, Len(log))
  /\ FeedFailed => log = SubSeq(FullLog, 1, 2 * url - 1)

\* C8: the feeds are taken one at a time in the order of URLS, and when the
\* fetch, the parse or the load of a feed fails the run is over with an error:
\* the feeds before it are committed, the step that fails leaves the table as
\* the last of them left it, no later feed is fetched or loaded and the
\* duplicates are not deleted.
C8_AbortOnFeedFailure ==
  [][/\ C8_State'
     /\ FeedFailed' => table' = table
     /\ FeedFailed => (pc' \in {"page", "error"} /\ log' = <<>>)]_vars

C8_Witness ==
  /\ FeedFailed
  /\ err = "parse"
  /\ url = 3
  /\ table # EmptyBag
  /\ Cardinality(Lines(log, "inserted")) = 2

\* T is not smaller than any last_updated_time of the table.
NotSmaller(time, max) == max = <<>> \/ max[1] <= time

\* The run before was one with a timestamp not smaller than the stored ones
\* that failed after the commit of a feed with a record.
PartialFailure == prev.end = "error" /\ prev.loaded /\ prev.fresh

\* C9: a run with a source timestamp T not smaller than any stored
\* last_updated_time that fails after the commit of a feed with a record
\* leaves T as the stored maximum, and the run after it, reading T, finds T
\* stored, stops at the gate and leaves the table as the failed run left it.
C9_PartialFailureClosesGate ==
  /\ [](/\ (pc = "error" /\ loaded
             /\ NotSmaller(last_update_time, max_updated_time))
            => StoredMax(table) = <<last_update_time>>
        /\ (PartialFailure /\ PastGate /\ last_update_time = prev.time)
            => (Skipped /\ max_updated_time = <<prev.time>>))
  /\ [][ReadsStoredMax /\ (Skipped' => table' = table)]_vars

C9_Witness ==
  /\ PartialFailure
  /\ last_update_time = prev.time
  /\ Skipped
  /\ \E r \in BagToSet(table) : r.last_updated_time < prev.time

\* The run before loaded every feed, a record among them, with a timestamp
\* not smaller than the stored ones.
FullLoad == prev.end = "loaded" /\ prev.loaded /\ prev.fresh

\* C10: after a run that loaded every feed, at least one record among them,
\* with a source timestamp T not smaller than any last_updated_time stored
\* before it, the stored maximum is T and the runs that follow and read T
\* stop at the gate; during and after a run whose T is smaller than the
\* stored maximum, or that has loaded no record, the stored maximum is what
\* the run read, and the run that follows and reads T passes the gate.
C10_GateConvergence ==
  /\ (pc = "done" /\ Lines(log, "cleaned") # {} /\ loaded
        /\ NotSmaller(last_update_time, max_updated_time))
       => StoredMax(table) = <<last_update_time>>
  /\ (FullLoad /\ pc \in {"page", "max", "gate"})
       => StoredMax(table) = <<prev.time>>
  /\ ((FullLoad \/ prev.end = "skipped")
        /\ PastGate /\ last_update_time = prev.time)
       => Skipped
  /\ (PastGate
        /\ (~ NotSmaller(last_update_time, max_updated_time) \/ ~ loaded))
       => StoredMax(table) = max_updated_time
  /\ ((\/ prev.time # 0 /\ ~ prev.fresh
       \/ prev.end = "loaded" /\ ~ prev.loaded)
        /\ PastGate /\ last_update_time = prev.time)
       => (url >= 1 /\ ~ Skipped)

C10_Witness ==
  /\ FullLoad
  /\ last_update_time = prev.time
  /\ Skipped
  /\ \E r \in BagToSet(table) : r.last_updated_time < prev.time

\* The other cases of C10, each reached.
C10_WitnessSmaller ==
  /\ prev.time # 0
  /\ ~ prev.fresh
  /\ last_update_time = prev.time
  /\ pc = "done"
  /\ Lines(log, "cleaned") # {}

C10_WitnessEmpty ==
  /\ prev.end = "loaded"
  /\ ~ prev.loaded
  /\ last_update_time = prev.time
  /\ pc = "done"
  /\ Lines(log, "cleaned") # {}

====
